---- MODULE Spec2Model ----
(***************************************************************************)
(* Memory stream, retrieval and reflection of lordtatty/a25.               *)
(*                                                                         *)
(* Texts are sequences of one-character strings, so that the parsers work  *)
(* on them as the Go code works on bytes.  Times are clock ticks (one tick *)
(* is one hour), floats are fixed-point integers plus NaN and +-Inf:       *)
(* importances are in tenths, scores in thousandths.                       *)
(***************************************************************************)
EXTENDS Integers, Sequences, FiniteSets

VARIABLES Memories, clock, pc, rf, fl, ret, hist, actions

vars == <<Memories, clock, pc, rf, fl, ret, hist, actions>>

---------------------------------------------------------------------------
(* Bounds of the model.                                                    *)

\* the store is capped at MaxMem records (the code's store is unbounded)
MaxMem == 2

\* the clock is read in 0..MaxClock
MaxClock == 1

\* a completion text given to a parser has at most MaxText characters
MaxText == 4

\* a vector given to cosineSimilarity has at most MaxDim components, each
\* in -MaxComp..MaxComp
MaxDim == 2
MaxComp == 1

\* a plan holds at most MaxPlan actions (at most maxInsertion, so that
\* sort.Slice sorts it by insertion), starting at an hour in 0..MaxStart
MaxPlan == 3
MaxStart == 2

---------------------------------------------------------------------------
(* strings: TrimSpace, Split, Index                                        *)

IsSpace(c) == c \in {" ", "\t", "\n", "\r"}

RECURSIVE TrimLeft(_)
TrimLeft(s) ==
    IF s # <<>> /\ IsSpace(Head(s)) THEN TrimLeft(Tail(s)) ELSE s

RECURSIVE TrimRight(_)
TrimRight(s) ==
    IF s # <<>> /\ IsSpace(s[Len(s)])
    THEN TrimRight(SubSeq(s, 1, Len(s) - 1))
    ELSE s

\* strings.TrimSpace
TrimSpace(s) == TrimRight(TrimLeft(s))

\* strings.Index(s, c), 1-based; 0 where Go returns -1
Index(s, c) ==
    IF \E i \in 1..Len(s) : s[i] = c
    THEN CHOOSE i \in 1..Len(s) : s[i] = c /\ \A j \in 1..(i - 1) : s[j] # c
    ELSE 0

\* strings.Split(s, "\n")
RECURSIVE Split(_)
Split(s) ==
    LET i == Index(s, "\n") IN
    IF i = 0
    THEN <<s>>
    ELSE <<SubSeq(s, 1, i - 1)>> \o Split(SubSeq(s, i + 1, Len(s)))

---------------------------------------------------------------------------
(* reflect/reflection.go: the parsers                                      *)

\* "Remove numbering if present": len(line) > 2 && (line[1] == '.' ||
\* line[1] == ')'); line[1] is the second byte
StripNumbering(line) ==
    IF Len(line) > 2 /\ (line[2] = "." \/ line[2] = ")")
    THEN TrimSpace(SubSeq(line, 3, Len(line)))
    ELSE line

RECURSIVE QuestionLines(_)
QuestionLines(lines) ==
    IF lines = <<>> THEN <<>>
    ELSE LET line == TrimSpace(Head(lines)) IN
         IF line = <<>>
         THEN QuestionLines(Tail(lines))
         ELSE <<StripNumbering(line)>> \o QuestionLines(Tail(lines))

parseQuestions(output) == QuestionLines(Split(output))

\* "Extract the insight before the '('"
BeforeParen(line) ==
    LET idx == Index(line, "(") IN
    IF idx # 0 THEN SubSeq(line, 1, idx - 1) ELSE line

RECURSIVE InsightLines(_)
InsightLines(lines) ==
    IF lines = <<>> THEN <<>>
    ELSE LET line == TrimSpace(Head(lines)) IN
         IF line = <<>>
         THEN InsightLines(Tail(lines))
         ELSE <<TrimSpace(BeforeParen(StripNumbering(line)))>>
                  \o InsightLines(Tail(lines))

parseInsights(output) == InsightLines(Split(output))

---------------------------------------------------------------------------
(* floats: a number (fixed point), NaN, +Inf or -Inf                       *)

Num(n) == [k |-> "num", v |-> n]
NaN == [k |-> "nan", v |-> 0]
PosInf == [k |-> "inf", v |-> 1]
NegInf == [k |-> "inf", v |-> -1]

\* x + y
FAdd(x, y) ==
    IF x.k = "nan" \/ y.k = "nan" THEN NaN
    ELSE IF x.k = "inf" /\ y.k = "inf" THEN (IF x.v = y.v THEN x ELSE NaN)
    ELSE IF x.k = "inf" THEN x
    ELSE IF y.k = "inf" THEN y
    ELSE Num(x.v + y.v)

\* x > y: false when either side is NaN
FGt(x, y) ==
    /\ x.k # "nan"
    /\ y.k # "nan"
    /\ \/ x.k = "num" /\ y.k = "num" /\ x.v > y.v
       \/ x = PosInf /\ y # PosInf
       \/ y = NegInf /\ x # NegInf

\* x >= y: false when either side is NaN
FGe(x, y) == x.k # "nan" /\ y.k # "nan" /\ ~FGt(y, x)

\* x * c for a positive constant c
FScale(x, c) == IF x.k = "num" THEN Num(x.v * c) ELSE x

---------------------------------------------------------------------------
(* memory/memory.go: parseImportanceRating                                 *)

DigitVal(c) ==
    CASE c = "0" -> 0 [] c = "1" -> 1 [] c = "2" -> 2 [] c = "3" -> 3
      [] c = "4" -> 4 [] c = "5" -> 5 [] c = "6" -> 6 [] c = "7" -> 7
      [] c = "8" -> 8 [] c = "9" -> 9 [] OTHER -> -1

IsDigit(c) == DigitVal(c) >= 0

RECURSIVE DecimalValue(_)
DecimalValue(ds) ==
    IF ds = <<>> THEN 0
    ELSE 10 * DecimalValue(SubSeq(ds, 1, Len(ds) - 1)) + DigitVal(ds[Len(ds)])

AllDigits(ds) == ds # <<>> /\ \A i \in 1..Len(ds) : IsDigit(ds[i])

\* strconv.ParseFloat(s, 32) on the texts of this model: "NaN", an optionally
\* signed "Inf", and an optionally signed decimal with at most one digit
\* after the point; the value is in tenths.  Every other text is a syntax
\* error (exponents, hexadecimal floats and longer fractions are left out of
\* RatingTexts).
ParseFloat(s) ==
    LET signed == s # <<>> /\ Head(s) \in {"+", "-"}
        sign   == IF s # <<>> /\ Head(s) = "-" THEN -1 ELSE 1
        body   == IF signed THEN Tail(s) ELSE s
        dot    == Index(body, ".")
        whole  == IF dot = 0 THEN body ELSE SubSeq(body, 1, dot - 1)
        frac   == IF dot = 0 THEN <<>> ELSE SubSeq(body, dot + 1, Len(body))
    IN  IF s = <<"N", "a", "N">> THEN [ok |-> TRUE, f |-> NaN]
        ELSE IF body = <<"I", "n", "f">>
             THEN [ok |-> TRUE, f |-> IF sign = 1 THEN PosInf ELSE NegInf]
        ELSE IF AllDigits(whole) /\ dot = 0
             THEN [ok |-> TRUE, f |-> Num(sign * 10 * DecimalValue(whole))]
        ELSE IF AllDigits(whole) /\ Len(frac) = 1 /\ IsDigit(frac[1])
             THEN [ok |-> TRUE,
                   f |-> Num(sign * (10 * DecimalValue(whole) + DigitVal(frac[1])))]
        ELSE [ok |-> FALSE, f |-> Num(0)]

\* strconv.ParseFloat(strings.TrimSpace(response), 32): no range check
parseImportanceRating(response) == ParseFloat(TrimSpace(response))

---------------------------------------------------------------------------
(* the external capability: an outcome is a failure or a value             *)

Failure == [ok |-> FALSE, v |-> <<>>]
Ok(v) == [ok |-> TRUE, v |-> v]

\* the embedding service is a function of the text, as a deterministic
\* stub is: the vector depends on the first character, and the empty text
\* has the zero vector
Embedding(text) ==
    IF text = <<>> THEN <<0, 0>>
    ELSE IF Head(text) \in {"a", "p", "q"} THEN <<1, 0>>
    ELSE IF Head(text) = "x" THEN <<0, 1>>
    ELSE <<1, 1>>

\* CreateEmbeddings for one text: an error, or the text's vector
EmbedOutcomes(text) == {Failure, Ok(Embedding(text))}

\* texts of the importance completion: " 8\n", "NaN", "x"
RatingTexts == { <<" ", "8", "\n">>, <<"N", "a", "N">>, <<"x">> }

RatingOutcomes == {Failure} \cup {Ok(t) : t \in RatingTexts}

\* memory.go:62-84: the completion call, then the parse of its text
rateImportance(outcome) ==
    IF ~outcome.ok THEN [err |-> "completion", rating |-> Num(0)]
    ELSE LET p == parseImportanceRating(outcome.v) IN
         IF ~p.ok THEN [err |-> "parse", rating |-> Num(0)]
         ELSE [err |-> "nil", rating |-> p.f]

---------------------------------------------------------------------------
(* memory/memory.go: MemoryObject, AddMemory, GetRecentMemories            *)

\* the record with the two clock readings exchanged
MemoryObjectSwapped(description, created, accessed, importance, embed) ==
    [Description      |-> description,
     CreationTime     |-> accessed,
     LastAccessedTime |-> created,
     Importance       |-> importance,
     Embedding        |-> embed]

\* the composite literal of AddMemory: created is the first time.Now(),
\* accessed the second
MemoryObject(description, created, accessed, importance, embed) ==
    [Description      |-> description,
     CreationTime     |-> created,
     LastAccessedTime |-> accessed,
     Importance       |-> importance,
     Embedding        |-> embed]

\* AddMemory with the record appended before the rating is known
AddMemoryAppendsFirst(ms, description, embed, rate, t1, t2) ==
    IF ~embed.ok THEN [mems |-> ms, err |-> "embedding"]
    ELSE LET r == rateImportance(rate) IN
         [mems |-> Append(ms, MemoryObject(description, t1, t2, r.rating,
                                           embed.v)),
          err  |-> r.err]

\* AddMemory with the record put in front of the store
AddMemoryPrepends(ms, description, embed, rate, t1, t2) ==
    IF ~embed.ok THEN [mems |-> ms, err |-> "embedding"]
    ELSE LET r == rateImportance(rate) IN
         IF r.err # "nil" THEN [mems |-> ms, err |-> r.err]
         ELSE [mems |-> <<MemoryObject(description, t1, t2, r.rating,
                                       embed.v)>> \o ms,
               err  |-> "nil"]

\* AddMemory on store ms: embed is the outcome of getEmbedding, rate the
\* outcome of the importance completion, t1 <= t2 the two clock readings
AddMemory(ms, description, embed, rate, t1, t2) ==
    IF ~embed.ok THEN [mems |-> ms, err |-> "embedding"]
    ELSE LET r == rateImportance(rate) IN
         IF r.err # "nil" THEN [mems |-> ms, err |-> r.err]
         ELSE [mems |-> Append(ms, MemoryObject(description, t1, t2,
                                                r.rating, embed.v)),
               err  |-> "nil"]

\* whether an external call of AddMemory failed (a parse failure is none)
AddCallFailed(embed, rate) == ~embed.ok \/ ~rate.ok

\* the importance completion is called only after the embedding succeeded
RatingsAfter(embed) == IF embed.ok THEN RatingOutcomes ELSE {Failure}

\* the clock is read only after both calls and the parse succeeded: the
\* pairs <<t1, t2>> of readings from clock reading c on
ReadingsAfter(embed, rate, c, max) ==
    IF embed.ok /\ rateImportance(rate).err = "nil"
    THEN {<<t1, t2>> \in (c..max) \X (c..max) : t1 <= t2}
    ELSE {<<c, c>>}

Min(a, b) == IF a < b THEN a ELSE b

\* GetRecentMemories returning the oldest records: ms.Memories[:n]
GetRecentMemoriesOldest(ms, n) == SubSeq(ms, 1, Min(n, Len(ms)))

\* GetRecentMemories(n): ms.Memories[len(ms.Memories)-n:]
GetRecentMemories(ms, n) ==
    LET m == Min(n, Len(ms)) IN SubSeq(ms, Len(ms) - m + 1, Len(ms))

---------------------------------------------------------------------------
(* agent.go (package memory): cosineSimilarity and the score               *)

RECURSIVE SqrtBetween(_, _, _)
SqrtBetween(n, lo, hi) ==
    IF lo >= hi THEN lo
    ELSE LET mid == (lo + hi + 1) \div 2 IN
         IF mid * mid <= n THEN SqrtBetween(n, mid, hi)
         ELSE SqrtBetween(n, lo, mid - 1)

\* math.Sqrt(n), in thousandths
SqrtMilli(n) == SqrtBetween(n * 1000000, 0, 1000 * (n + 1))

RECURSIVE Dot(_, _)
Dot(a, b) ==
    IF a = <<>> THEN 0 ELSE Head(a) * Head(b) + Dot(Tail(a), Tail(b))

Abs(x) == IF x < 0 THEN -x ELSE x

\* cosineSimilarity returning 1 for a vector of norm zero
cosineSimilarityZeroIsOne(a, b) ==
    LET dotProduct == Dot(a, b)
        normA      == Dot(a, a)
        normB      == Dot(b, b)
        sign       == IF dotProduct < 0 THEN -1 ELSE 1
    IN  IF normA = 0 \/ normB = 0 THEN 1000
        ELSE sign * ((Abs(dotProduct) * 1000000)
                        \div ((SqrtMilli(normA) * SqrtMilli(normB)) \div 1000))

\* cosineSimilarity(a, b), in thousandths
cosineSimilarity(a, b) ==
    LET dotProduct == Dot(a, b)
        normA      == Dot(a, a)
        normB      == Dot(b, b)
        sign       == IF dotProduct < 0 THEN -1 ELSE 1
    IN  IF normA = 0 \/ normB = 0 THEN 0
        ELSE sign * ((Abs(dotProduct) * 1000000)
                        \div ((SqrtMilli(normA) * SqrtMilli(normB)) \div 1000))

\* math.Exp(-hours / 24.0), in thousandths: exp(-1/24) = 0.959
RECURSIVE recencyScore(_)
recencyScore(hours) ==
    IF hours <= 0 THEN 1000 ELSE (recencyScore(hours - 1) * 959) \div 1000

\* memory.Importance / 10.0, in thousandths (the importance is in tenths)
importanceScore(memory) == FScale(memory.Importance, 10)

\* the score of a record touched before it is scored: no time has passed
\* since its last access
totalScoreAfterTouch(queryEmbedding, memoryEmbedding, memory, now) ==
    FAdd(FAdd(Num(cosineSimilarity(queryEmbedding, memoryEmbedding)),
              Num(recencyScore(0))),
         importanceScore(memory))

\* relevance + recencyScore + float32(importanceScore); now is the clock
\* reading of time.Since
totalScore(queryEmbedding, memoryEmbedding, memory, now) ==
    FAdd(FAdd(Num(cosineSimilarity(queryEmbedding, memoryEmbedding)),
              Num(recencyScore(now - memory.LastAccessedTime))),
         importanceScore(memory))

\* the less function of sort.Slice: retrieved[i].Score > retrieved[j].Score
Less(x, y) == FGt(x.Score, y.Score)

Swap(data, i, j) == [data EXCEPT ![i] = data[j], ![j] = data[i]]

\* sort.Slice sorts a slice of at most maxInsertion elements by insertion
maxInsertion == 12

RECURSIVE InsertDown(_, _, _)
InsertDown(data, j, a) ==
    IF j > a /\ Less(data[j], data[j - 1])
    THEN InsertDown(Swap(data, j, j - 1), j - 1, a)
    ELSE data

RECURSIVE InsertFrom(_, _, _, _)
InsertFrom(data, i, a, b) ==
    IF i > b THEN data ELSE InsertFrom(InsertDown(data, i, a), i + 1, a, b)

\* insertionSort of data[a..b]
insertionSort(data, a, b) == InsertFrom(data, a + 1, a, b)

Order2(data, a, b) ==
    IF Less(data[b], data[a])
    THEN [lo |-> b, hi |-> a, swaps |-> 1]
    ELSE [lo |-> a, hi |-> b, swaps |-> 0]

\* the index of the median of data[a], data[b], data[c], and the swaps made
median(data, a, b, c) ==
    LET s1 == Order2(data, a, b)
        s2 == Order2(data, s1.hi, c)
        s3 == Order2(data, s1.lo, s2.lo)
    IN  [pivot |-> s3.hi, swaps |-> s1.swaps + s2.swaps + s3.swaps]

\* choosePivot for data[a..b] of fewer than 50 elements
choosePivot(data, a, b) ==
    LET l == b - a + 1
        i == a + (l \div 4)
        j == a + (l \div 4) * 2
        k == a + (l \div 4) * 3
    IN  IF l >= 8 THEN median(data, i, j, k) ELSE [pivot |-> j, swaps |-> 0]

\* partialInsertionSort for fewer than 50 elements: it reports whether
\* data[a..b] is sorted already and moves nothing
partialInsertionSort(data, a, b) ==
    \A i \in (a + 1)..b : ~Less(data[i], data[i - 1])

RECURSIVE SkipLeft(_, _, _, _)
SkipLeft(data, i, j, a) ==
    IF i <= j /\ Less(data[i], data[a]) THEN SkipLeft(data, i + 1, j, a) ELSE i

RECURSIVE SkipRight(_, _, _, _)
SkipRight(data, i, j, a) ==
    IF i <= j /\ ~Less(data[j], data[a]) THEN SkipRight(data, i, j - 1, a) ELSE j

RECURSIVE PartitionLoop(_, _, _, _)
PartitionLoop(data, i, j, a) ==
    LET i2 == SkipLeft(data, i, j, a)
        j2 == SkipRight(data, i2, j, a)
    IN  IF i2 > j2 THEN [data |-> data, j |-> j2]
        ELSE PartitionLoop(Swap(data, i2, j2), i2 + 1, j2 - 1, a)

\* partition of data[a..b] around data[pivot]: the slice and the pivot's
\* final place
partition(data, a, b, pivot) ==
    LET d1 == Swap(data, a, pivot)
        i1 == SkipLeft(d1, a + 1, b, a)
        j1 == SkipRight(d1, i1, b, a)
        r  == PartitionLoop(Swap(d1, i1, j1), i1 + 1, j1 - 1, a)
    IN  IF i1 > j1
        THEN [data |-> Swap(d1, j1, a), mid |-> j1]
        ELSE [data |-> Swap(r.data, r.j, a), mid |-> r.j]

\* pdqsort of a whole slice of at most maxInsertion + 1 elements: a longer
\* slice is partitioned once and each side, at most maxInsertion long, is
\* sorted by insertion
pdqsort(data) ==
    LET n == Len(data)
        c == choosePivot(data, 1, n)
        p == partition(data, 1, n, c.pivot)
    IN  IF n <= maxInsertion THEN insertionSort(data, 1, n)
        ELSE IF c.swaps = 0 /\ partialInsertionSort(data, 1, n) THEN data
        ELSE insertionSort(insertionSort(p.data, 1, p.mid - 1), p.mid + 1, n)

\* sort.Slice(retrieved, less)
SortSlice(retrieved) == pdqsort(retrieved)

\* the touch writing the record's CreationTime
TouchCreated(ms, i, now) == [ms EXCEPT ![i].CreationTime = now]

\* ms.Memories[i].LastAccessedTime = time.Now()
Touch(ms, i, now) == [ms EXCEPT ![i].LastAccessedTime = now]

---------------------------------------------------------------------------
(* The state.  Memories is ms.Memories; clock the last reading of          *)
(* time.Now(); pc the position of the running operation: "idle", "scan"    *)
(* (the loop of RetrieveMemories), "loop" (the head of Reflect's loop over *)
(* the questions), "insights" (generateInsights) and "add" (the loop over  *)
(* the insights).  rf holds the locals of RetrieveMemories, fl those of    *)
(* Reflect, ret the last return to the caller.  hist records the running   *)
(* or last reflection pass for the properties; no action reads it.         *)
(* actions is Plan.actions, the agent's day plan.                           *)

\* descriptions the caller appends
Descriptions == { <<"a">> }

\* queries the caller retrieves with
Queries == { <<"q">> }

\* texts of the questions completion: "", " \n ", "1. p\n2) q", "p"
QuestionTexts ==
    { <<>>,
      <<" ", "\n", " ">>,
      <<"1", ".", " ", "p", "\n", "2", ")", " ", "q">>,
      <<"p">> }

\* texts of the insights completion: "", "1. x (1)", "x\n(1)"
InsightTexts ==
    { <<>>,
      <<"1", ".", " ", "x", " ", "(", "1", ")">>,
      <<"x", "\n", "(", "1", ")">> }

\* CreateChatCompletion: an error, or a text
QuestionOutcomes == {Failure} \cup {Ok(t) : t \in QuestionTexts}
InsightOutcomes == {Failure} \cup {Ok(t) : t \in InsightTexts}

NoRetrieve ==
    [caller |-> "none", query |-> <<>>, queryEmbedding |-> <<>>, i |-> 0,
     retrieved |-> <<>>, calledAt |-> 0]

NoReflect ==
    [questions |-> <<>>, qi |-> 0, retrievedMemories |-> <<>>,
     insights |-> <<>>, ii |-> 0]

Return(op, err, val, calledAt) ==
    [op |-> op, err |-> err, val |-> val, calledAt |-> calledAt]

NoReturn == Return("none", "nil", <<>>, 0)

\* start: the store when the pass began, without the access times; nq: the questions parsed; parsed:
\* the insights parsed so far, in order; callFailed: an external call of the
\* pass failed; addFailed: an AddMemory of the pass returned an error;
\* lastAdd: what the last AddMemory of the pass returned; stage and q: where
\* the pass ended
NoHist ==
    [start |-> <<>>, nq |-> 0, parsed |-> <<>>, callFailed |-> FALSE,
     addFailed |-> FALSE, lastAdd |-> "none", stage |-> "none", q |-> 0]

\* what of a record never changes after its creation
Fixed(memory) ==
    [Description  |-> memory.Description,
     CreationTime |-> memory.CreationTime,
     Importance   |-> memory.Importance,
     Embedding    |-> memory.Embedding]

FixedOf(ms) == [i \in 1..Len(ms) |-> Fixed(ms[i])]

\* NewStream
Init ==
    /\ Memories = <<>>
    /\ clock = 0
    /\ pc = "idle"
    /\ rf = NoRetrieve
    /\ fl = NoReflect
    /\ ret = NoReturn
    /\ hist = NoHist
    /\ actions = <<>>

---------------------------------------------------------------------------
(* memory.go:41-59, called by the agent                                    *)

CallAddMemory ==
    /\ pc = "idle"
    /\ Len(Memories) < MaxMem
    /\ \E description \in Descriptions :
       \E embed \in EmbedOutcomes(description) :
       \E rate \in RatingsAfter(embed) :
       \E t \in ReadingsAfter(embed, rate, clock, MaxClock) :
            LET res == AddMemory(Memories, description, embed, rate,
                                 t[1], t[2])
            IN  /\ Memories' = res.mems
                /\ clock' = t[2]
                /\ ret' = Return("AddMemory", res.err, <<>>, clock)
    /\ hist' = NoHist
    /\ UNCHANGED <<pc, rf, fl, actions>>

\* memory.go:97-103
CallGetRecentMemories ==
    /\ pc = "idle"
    /\ \E n \in 0..(MaxMem + 1) :
         ret' = Return("GetRecentMemories", "nil",
                       GetRecentMemories(Memories, n), n)
    /\ hist' = NoHist
    /\ UNCHANGED <<Memories, clock, pc, rf, fl, actions>>

---------------------------------------------------------------------------
(* agent.go:293-331: RetrieveMemories                                      *)

\* lines 295-300: the locals after the query's embedding
EnterRetrieve(caller, query, queryEmbedding) ==
    [caller |-> caller, query |-> query, queryEmbedding |-> queryEmbedding,
     i |-> 1, retrieved |-> <<>>, calledAt |-> clock]

\* Reflect returns err; stage names the step it ended in
ReflectReturns(err, stage, h) ==
    /\ pc' = "idle"
    /\ rf' = NoRetrieve
    /\ fl' = NoReflect
    /\ ret' = Return("Reflect", err, <<>>, 0)
    /\ hist' = [h EXCEPT !.callFailed = (@ \/ err # "nil"),
                         !.stage = stage, !.q = fl.qi]

CallRetrieveMemories ==
    /\ pc = "idle"
    /\ \E query \in Queries :
       \E embed \in EmbedOutcomes(query) :
         IF ~embed.ok
         THEN /\ ret' = Return("RetrieveMemories", "embedding", <<>>, clock)
              /\ UNCHANGED <<pc, rf>>
         ELSE /\ pc' = "scan"
              /\ rf' = EnterRetrieve("user", query, embed.v)
              /\ ret' = NoReturn
    /\ hist' = NoHist
    /\ UNCHANGED <<Memories, clock, fl, actions>>

\* lines 301-323: one pass of the loop body, for record rf.i
RetrieveScan ==
    /\ pc = "scan"
    /\ rf.i <= Len(Memories)
    /\ \E embed \in EmbedOutcomes(Memories[rf.i].Description) :
       \E t \in (IF embed.ok
                 THEN {<<t1, t2>> \in (clock..MaxClock) \X (clock..MaxClock) :
                          t1 <= t2}
                 ELSE {<<clock, clock>>}) :
            LET memory == Memories[rf.i]
                since  == t[1]
                now    == t[2]
                entry  == [Memory |-> memory,
                           Score  |-> totalScore(rf.queryEmbedding, embed.v,
                                                 memory, since),
                           idx    |-> rf.i,
                           since  |-> since]
            IN  IF ~embed.ok
                THEN /\ UNCHANGED <<Memories, clock>>
                     /\ IF rf.caller = "user"
                        THEN /\ pc' = "idle"
                             /\ rf' = NoRetrieve
                             /\ ret' = Return("RetrieveMemories", "embedding",
                                              <<>>, rf.calledAt)
                             /\ UNCHANGED <<fl, hist>>
                        ELSE ReflectReturns("embedding", "retrieve", hist)
                ELSE /\ Memories' = Touch(Memories, rf.i, now)
                     /\ clock' = now
                     /\ rf' = [rf EXCEPT !.i = @ + 1,
                                         !.retrieved = Append(@, entry)]
                     /\ UNCHANGED <<pc, fl, ret, hist>>
    /\ UNCHANGED actions

\* lines 325-330: the sort and the return
RetrieveReturn ==
    /\ pc = "scan"
    /\ rf.i > Len(Memories)
    /\ LET sorted == SortSlice(rf.retrieved) IN
         IF rf.caller = "user"
         THEN /\ pc' = "idle"
              /\ ret' = Return("RetrieveMemories", "nil", sorted, rf.calledAt)
              /\ UNCHANGED fl
         ELSE /\ pc' = "insights"
              /\ fl' = [fl EXCEPT !.retrievedMemories = sorted]
              /\ UNCHANGED ret
    /\ rf' = NoRetrieve
    /\ UNCHANGED <<Memories, clock, hist, actions>>

---------------------------------------------------------------------------
(* reflect/reflection.go:21-53: Reflect                                    *)

\* the loop over the insights stopping one short
MoreInsightsButLast(f) == f.ii < Len(f.insights) - 1

\* "for _, insight := range insights": another insight follows insight f.ii
MoreInsights(f) == f.ii < Len(f.insights)

\* "for _, question := range questions": another question follows
MoreQuestions(f) == f.qi < Len(f.questions)

\* the loop over the questions taking the same question again
NextQuestionSame(h) ==
    /\ pc' = "loop"
    /\ fl' = [NoReflect EXCEPT !.questions = fl.questions, !.qi = fl.qi]
    /\ hist' = h
    /\ UNCHANGED <<rf, ret>>

\* the end of one pass of the loop over the questions: the next question,
\* or "return nil" after the last
NextQuestion(h) ==
    IF MoreQuestions(fl)
    THEN /\ pc' = "loop"
         /\ fl' = [NoReflect EXCEPT !.questions = fl.questions,
                                    !.qi = fl.qi + 1]
         /\ hist' = h
         /\ UNCHANGED <<rf, ret>>
    ELSE ReflectReturns("nil", "done", h)

\* lines 22-32: the prompt is built from the descriptions of the memories
\* argument, then generateReflectionQuestions asks for the questions
CallReflect ==
    /\ pc = "idle"
    /\ \E completion \in QuestionOutcomes :
         LET h         == [NoHist EXCEPT !.start = FixedOf(Memories)]
             questions == parseQuestions(completion.v)
         IN  IF ~completion.ok
             THEN ReflectReturns("completion", "questions", h)
             ELSE IF questions = <<>>
             THEN ReflectReturns("nil", "done", h)
             ELSE /\ pc' = "loop"
                  /\ fl' = [NoReflect EXCEPT !.questions = questions, !.qi = 1]
                  /\ ret' = NoReturn
                  /\ hist' = [h EXCEPT !.nq = Len(questions)]
                  /\ UNCHANGED rf
    /\ UNCHANGED <<Memories, clock, actions>>

\* lines 34-39: ms.RetrieveMemories(question), up to the query's embedding
ReflectRetrieve ==
    /\ pc = "loop"
    /\ \E embed \in EmbedOutcomes(fl.questions[fl.qi]) :
         IF ~embed.ok
         THEN ReflectReturns("embedding", "retrieve", hist)
         ELSE /\ pc' = "scan"
              /\ rf' = EnterRetrieve("reflect", fl.questions[fl.qi], embed.v)
              /\ UNCHANGED <<fl, ret, hist>>
    /\ UNCHANGED <<Memories, clock, actions>>

\* lines 41-45: generateInsights(question, retrievedMemories, client)
ReflectInsights ==
    /\ pc = "insights"
    /\ \E completion \in InsightOutcomes :
         LET insights == parseInsights(completion.v)
             h        == [hist EXCEPT !.parsed = @ \o insights]
         IN  IF ~completion.ok
             THEN ReflectReturns("completion", "insights", hist)
             ELSE /\ Len(Memories) + Len(insights) <= MaxMem
                  /\ IF insights = <<>>
                     THEN NextQuestion(h)
                     ELSE /\ pc' = "add"
                          /\ fl' = [fl EXCEPT !.insights = insights, !.ii = 1]
                          /\ hist' = h
                          /\ UNCHANGED <<rf, ret>>
    /\ UNCHANGED <<Memories, clock, actions>>

\* lines 47-49: ms.AddMemory(insight), its error dropped
ReflectAdd ==
    /\ pc = "add"
    /\ \E embed \in EmbedOutcomes(fl.insights[fl.ii]) :
       \E rate \in RatingsAfter(embed) :
       \E t \in ReadingsAfter(embed, rate, clock, MaxClock) :
            LET res == AddMemory(Memories, fl.insights[fl.ii], embed, rate,
                                 t[1], t[2])
                h   == [hist EXCEPT
                          !.callFailed = (@ \/ AddCallFailed(embed, rate)),
                          !.addFailed = (@ \/ res.err # "nil"),
                          !.lastAdd = res.err]
            IN  /\ Memories' = res.mems
                /\ clock' = t[2]
                /\ IF MoreInsights(fl)
                   THEN /\ fl' = [fl EXCEPT !.ii = @ + 1]
                        /\ hist' = h
                        /\ UNCHANGED <<pc, rf, ret>>
                   ELSE NextQuestion(h)
    /\ UNCHANGED actions

Next ==
    \/ CallAddMemory
    \/ CallGetRecentMemories
    \/ CallRetrieveMemories
    \/ RetrieveScan
    \/ RetrieveReturn
    \/ CallReflect
    \/ ReflectRetrieve
    \/ ReflectInsights
    \/ ReflectAdd

Spec == Init /\ [][Next]_vars

\* Reflect and RetrieveMemories are sequential functions: once called, each
\* step is taken as soon as the external call it waits for has returned
\* (with a value or an error)
SpecReturning ==
    /\ Init
    /\ [][Next]_vars
    /\ WF_vars(RetrieveScan)
    /\ WF_vars(RetrieveReturn)
    /\ WF_vars(ReflectRetrieve)
    /\ WF_vars(ReflectInsights)
    /\ WF_vars(ReflectAdd)

---------------------------------------------------------------------------
(* Retrieval from a store longer than maxInsertion, where sort.Slice no    *)
(* longer sorts by insertion.  The store holds maxInsertion + 1 records    *)
(* described "a" or "x", rated 8 and last accessed at MaxClock by an       *)
(* earlier retrieval; the agent retrieves from it.                         *)

LongStores ==
    { [i \in 1..(maxInsertion + 1) |->
          MemoryObject(d[i], 0, MaxClock, Num(80), Embedding(d[i]))] :
        d \in [1..(maxInsertion + 1) -> { <<"a">>, <<"x">> }] }

InitLongStore ==
    /\ Memories \in LongStores
    /\ clock = MaxClock
    /\ pc = "idle"
    /\ rf = NoRetrieve
    /\ fl = NoReflect
    /\ ret = NoReturn
    /\ hist = NoHist
    /\ actions = <<>>

NextLongStore ==
    \/ CallRetrieveMemories
    \/ RetrieveScan
    \/ RetrieveReturn

SpecLongStore == InitLongStore /\ [][NextLongStore]_vars

---------------------------------------------------------------------------
(* plan/plan.go: the day plan.  An action is its ID and its StartTime; its *)
(* Description, Location and Duration play no part in the order.           *)

\* the IDs uuid.NewString() draws from, and those of the actions a caller
\* hands to SetActions
ActionIDs == {"u1", "u2"}

Action == [ID : ActionIDs, StartTime : 0..MaxStart]

\* x.StartTime.Before(y.StartTime), the less function of SetActions
Before(x, y) == x.StartTime < y.StartTime

RECURSIVE InsertDownBefore(_, _)
InsertDownBefore(data, j) ==
    IF j > 1 /\ Before(data[j], data[j - 1])
    THEN InsertDownBefore(Swap(data, j, j - 1), j - 1)
    ELSE data

RECURSIVE InsertFromBefore(_, _)
InsertFromBefore(data, i) ==
    IF i > Len(data) THEN data
    ELSE InsertFromBefore(InsertDownBefore(data, i), i + 1)

\* SetActions: p.actions = actions, then sort.Slice by StartTime
SetActions(list) == InsertFromBefore(list, 2)

\* sort.Search(n, f) with f(h) = p.actions[h].StartTime.After(a.StartTime):
\* the binary search between i and j, 0-based as in Go
RECURSIVE Search(_, _, _, _)
Search(acts, a, i, j) ==
    IF i < j
    THEN LET h == (i + j) \div 2 IN
         IF ~(acts[h + 1].StartTime > a.StartTime)
         THEN Search(acts, a, h + 1, j)
         ELSE Search(acts, a, i, h)
    ELSE i

\* AddAction putting the action at the end of the plan
AddActionAtEnd(acts, a, id) == Append(acts, [a EXCEPT !.ID = id])

\* AddAction: a.ID = uuid.NewString(), then the action is inserted at the
\* place sort.Search finds
AddAction(acts, a, id) ==
    LET i == Search(acts, a, 0, Len(acts)) IN
    SubSeq(acts, 1, i) \o <<[a EXCEPT !.ID = id]>>
        \o SubSeq(acts, i + 1, Len(acts))

\* RemoveAction: the first action with the ID is deleted; an error when
\* none has it
RemoveAction(acts, id) ==
    IF \E i \in 1..Len(acts) : acts[i].ID = id
    THEN LET i == CHOOSE k \in 1..Len(acts) :
                     /\ acts[k].ID = id
                     /\ \A m \in 1..(k - 1) : acts[m].ID # id
         IN  [acts |-> SubSeq(acts, 1, i - 1) \o SubSeq(acts, i + 1, Len(acts)),
              err  |-> "nil"]
    ELSE [acts |-> acts, err |-> "action id not found"]

\* the zero Plan
InitPlan ==
    /\ Memories = <<>>
    /\ clock = 0
    /\ pc = "idle"
    /\ rf = NoRetrieve
    /\ fl = NoReflect
    /\ ret = NoReturn
    /\ hist = NoHist
    /\ actions = <<>>

\* plan.go:55-60
CallSetActions ==
    /\ \E n \in 0..MaxPlan :
       \E list \in [1..n -> Action] :
            actions' = SetActions(list)
    /\ ret' = Return("SetActions", "nil", <<>>, 0)
    /\ UNCHANGED <<Memories, clock, pc, rf, fl, hist>>

\* plan.go:45-52
CallAddAction ==
    /\ Len(actions) < MaxPlan
    /\ \E a \in Action :
       \E id \in ActionIDs :
            actions' = AddAction(actions, a, id)
    /\ ret' = Return("AddAction", "nil", <<>>, 0)
    /\ UNCHANGED <<Memories, clock, pc, rf, fl, hist>>

\* plan.go:63-71
CallRemoveAction ==
    /\ \E id \in ActionIDs :
         LET res == RemoveAction(actions, id) IN
            /\ actions' = res.acts
            /\ ret' = Return("RemoveAction", res.err, <<>>, id)
    /\ UNCHANGED <<Memories, clock, pc, rf, fl, hist>>

NextPlan ==
    \/ CallSetActions
    \/ CallAddAction
    \/ CallRemoveAction

SpecPlan == InitPlan /\ [][NextPlan]_vars

---------------------------------------------------------------------------
(* The parsers and cosineSimilarity on their own.  ret holds the call: op  *)
(* "input" with the argument in calledAt before the function has run, the  *)
(* function's name and its result in val after.                            *)

\* the sequences over set S of length at most n
RECURSIVE SeqsUpTo(_, _)
SeqsUpTo(S, n) ==
    IF n = 0 THEN { <<>> }
    ELSE LET shorter == SeqsUpTo(S, n - 1) IN
         shorter \cup { Append(t, c) : t \in shorter, c \in S }

\* the characters of a completion text
TextChars == {"1", "a", ".", ")", "(", " ", "\n"}

CompletionTexts == SeqsUpTo(TextChars, MaxText)

NoCall(argument) == Return("input", "nil", <<>>, argument)

InitParse ==
    /\ Memories = <<>>
    /\ clock = 0
    /\ pc = "idle"
    /\ rf = NoRetrieve
    /\ fl = NoReflect
    /\ ret \in {NoCall(text) : text \in CompletionTexts}
    /\ hist = NoHist
    /\ actions = <<>>

\* reflection.go:79-94
CallParseQuestions ==
    /\ ret.op = "input"
    /\ ret' = Return("parseQuestions", "nil", parseQuestions(ret.calledAt),
                     ret.calledAt)
    /\ UNCHANGED <<Memories, clock, pc, rf, fl, hist, actions>>

\* reflection.go:126-146
CallParseInsights ==
    /\ ret.op = "input"
    /\ ret' = Return("parseInsights", "nil", parseInsights(ret.calledAt),
                     ret.calledAt)
    /\ UNCHANGED <<Memories, clock, pc, rf, fl, hist, actions>>

NextParse ==
    \/ CallParseQuestions
    \/ CallParseInsights

SpecParse == InitParse /\ [][NextParse]_vars

\* the []float32 arguments of cosineSimilarity: two vectors of one length
Vectors(dim) == [1..dim -> (-MaxComp)..MaxComp]

VectorPairs == UNION { Vectors(dim) \X Vectors(dim) : dim \in 0..MaxDim }

InitCosine ==
    /\ Memories = <<>>
    /\ clock = 0
    /\ pc = "idle"
    /\ rf = NoRetrieve
    /\ fl = NoReflect
    /\ ret \in {NoCall(ab) : ab \in VectorPairs}
    /\ hist = NoHist
    /\ actions = <<>>

\* agent.go:334-345
CallCosineSimilarity ==
    /\ ret.op = "input"
    /\ ret' = Return("cosineSimilarity", "nil",
                     cosineSimilarity(ret.calledAt[1], ret.calledAt[2]),
                     ret.calledAt)
    /\ UNCHANGED <<Memories, clock, pc, rf, fl, hist, actions>>

NextCosine == CallCosineSimilarity

SpecCosine == InitCosine /\ [][NextCosine]_vars

---------------------------------------------------------------------------
(* Properties.                                                             *)

\* the store is store `before` plus one record at its end
GrownByOne(before, after) ==
    /\ Len(after) = Len(before) + 1
    /\ SubSeq(after, 1, Len(before)) = before

\* the store is what it was when the pass began, access times apart,
\* followed by one record for each description of descs, in order
StartPlus(descs) ==
    /\ Len(Memories) = Len(hist.start) + Len(descs)
    /\ SubSeq(FixedOf(Memories), 1, Len(hist.start)) = hist.start
    /\ \A j \in 1..Len(descs) :
          Memories[Len(hist.start) + j].Description = descs[j]

\* C1: AddMemory is all-or-nothing.  A step of AddMemory, called by the
\* agent or by Reflect, that returns an error leaves the store as it was,
\* and one that returns nil appends exactly one record to it.
C1_AddMemoryAllOrNothing ==
    [][ /\ (pc = "idle" /\ ret'.op = "AddMemory") =>
              IF ret'.err # "nil"
              THEN Memories' = Memories
              ELSE GrownByOne(Memories, Memories')
        /\ (pc = "add") =>
              IF hist'.lastAdd # "nil"
              THEN Memories' = Memories
              ELSE GrownByOne(Memories, Memories') ]_vars

\* C1 witness: an AddMemory has failed on a store that holds a record
C1_Witness ==
    /\ ret.op = "AddMemory"
    /\ ret.err \in {"embedding", "completion", "parse"}
    /\ Memories # <<>>

\* C2: once an external call of a reflection pass has failed, the pass is
\* over and Reflect has returned an error: no step of the pass follows the
\* first failure.
C2_ReflectFailsFast ==
    hist.callFailed => (pc = "idle" /\ ret.op = "Reflect" /\ ret.err # "nil")

\* C3: when the insights completion fails for question k >= 2 and every
\* call before it succeeded (each AddMemory of the pass returned nil),
\* Reflect returns the error and the store is the store of the start of the
\* pass followed by the insights parsed for questions 1..k-1, in order.
C3_PartialCommit ==
    ( /\ ret.op = "Reflect"
      /\ hist.stage = "insights"
      /\ hist.q >= 2
      /\ ~hist.addFailed )
    => (ret.err = "completion" /\ StartPlus(hist.parsed))

\* C3 witness: the insights completion failed for the second question,
\* after an insight of the first was appended to a store holding a record
C3_Witness ==
    /\ ret.op = "Reflect"
    /\ ret.err = "completion"
    /\ hist.stage = "insights"
    /\ hist.q = 2
    /\ ~hist.addFailed
    /\ Len(hist.start) = 1
    /\ Len(hist.parsed) = 1

\* C4: a pass in which every external call succeeded and every AddMemory
\* returned nil returns nil, and the store is the store of the start of the
\* pass followed by one record per parsed insight, question by question and
\* insight by insight.
C4_ReflectGrowsByInsights ==
    (ret.op = "Reflect" /\ ~hist.callFailed /\ ~hist.addFailed)
    => (ret.err = "nil" /\ hist.stage = "done" /\ StartPlus(hist.parsed))

\* C4 witness: a pass over two questions has returned nil with two insights
\* appended
C4_Witness ==
    /\ ret.op = "Reflect"
    /\ ret.err = "nil"
    /\ ~hist.callFailed
    /\ ~hist.addFailed
    /\ hist.nq = 2
    /\ Len(hist.parsed) = 2
    /\ Len(Memories) = Len(hist.start) + 2

\* C5: the retrieval for a question returns only records that were in the
\* store when the pass began.
C5_RetrievalSeesOnlyStart ==
    pc = "insights" =>
        \A j \in 1..Len(fl.retrievedMemories) :
            fl.retrievedMemories[j].idx <= Len(hist.start)

\* C6: a pass whose questions completion succeeded and yielded no question
\* returns an error (EmptyReflectionResult).
C6_NoQuestionsIsAnError ==
    (ret.op = "Reflect" /\ hist.stage # "questions" /\ hist.nq = 0)
    => ret.err # "nil"

\* the scores of a retrieval result never increase along it
NonIncreasing(result) ==
    \A i, j \in 1..Len(result) :
        i < j => FGe(result[i].Score, result[j].Score)

\* C7: the result of a successful RetrieveMemories, returned to the agent
\* or to Reflect, is ordered by non-increasing score.
C7_ResultSortedByScore ==
    /\ (ret.op = "RetrieveMemories" /\ ret.err = "nil") => NonIncreasing(ret.val)
    /\ (pc = "insights") => NonIncreasing(fl.retrievedMemories)

\* x == y: false when either side is NaN
FEq(x, y) == x.k # "nan" /\ y.k # "nan" /\ x = y

\* entries of equal score are in the order of their records in the store
TiesInStoreOrder(result) ==
    \A i, j \in 1..Len(result) :
        (i < j /\ FEq(result[i].Score, result[j].Score))
            => result[i].idx < result[j].idx

\* C8: in the result of a successful RetrieveMemories, returned to the agent
\* or to Reflect, any two records of equal score are in their store order.
C8_StableRanking ==
    /\ (ret.op = "RetrieveMemories" /\ ret.err = "nil")
          => TiesInStoreOrder(ret.val)
    /\ (pc = "insights") => TiesInStoreOrder(fl.retrievedMemories)

\* C9: after a successful RetrieveMemories there is one instant, not before
\* the call, that is the LastAccessedTime of every record of the store and
\* the instant every record's recency was computed for.
C9_SingleNow ==
    (ret.op = "RetrieveMemories" /\ ret.err = "nil" /\ Memories # <<>>)
    => \E now \in ret.calledAt..clock :
          /\ \A i \in 1..Len(Memories) : Memories[i].LastAccessedTime = now
          /\ \A j \in 1..Len(ret.val) : ret.val[j].since = now

\* C10: every record's LastAccessedTime is at or after its CreationTime, and
\* no step decreases the LastAccessedTime of a record.
C10_AccessTimeMonotone ==
    /\ [](\A i \in 1..Len(Memories) :
             Memories[i].LastAccessedTime >= Memories[i].CreationTime)
    /\ [][\A i \in (DOMAIN Memories) \cap (DOMAIN Memories') :
             Memories'[i].LastAccessedTime >= Memories[i].LastAccessedTime]_vars

\* C10 witness: a retrieval has moved a record's LastAccessedTime past its
\* CreationTime
C10_Witness ==
    /\ ret.op = "RetrieveMemories"
    /\ ret.err = "nil"
    /\ \E i \in 1..Len(Memories) :
          Memories[i].LastAccessedTime > Memories[i].CreationTime

\* C11: the record a step appends to the store has its LastAccessedTime
\* equal to its CreationTime.
C11_AccessedEqualsCreated ==
    [][ Len(Memories') = Len(Memories) + 1 =>
            Memories'[Len(Memories')].LastAccessedTime
                = Memories'[Len(Memories')].CreationTime ]_vars

\* an importance that is a finite number in [0, 10] (in tenths)
ValidImportance(importance) ==
    importance.k = "num" /\ importance.v >= 0 /\ importance.v <= 100

\* C12: every record of the store has a finite importance in [0, 10].
C12_ImportanceInRange ==
    \A i \in 1..Len(Memories) : ValidImportance(Memories[i].Importance)

\* the CreationTime never decreases along the store
CreatedInOrder(ms) ==
    \A i, j \in 1..Len(ms) : i < j => ms[i].CreationTime <= ms[j].CreationTime

\* C13: the store is append-only.  Its records are in the order of their
\* CreationTime, and every step leaves the store of before, LastAccessedTime
\* apart, as a prefix of the store of after: no record is deleted, moved or
\* changed in its Description, CreationTime, Importance or Embedding.
C13_AppendOnly ==
    /\ [](CreatedInOrder(Memories))
    /\ [][ /\ Len(Memories') >= Len(Memories)
           /\ SubSeq(FixedOf(Memories'), 1, Len(Memories))
                 = FixedOf(Memories) ]_vars

\* C13 witness: the store holds two records created at different instants
\* and a retrieval has touched the first after its creation
C13_Witness ==
    /\ Len(Memories) = 2
    /\ Memories[1].CreationTime < Memories[2].CreationTime
    /\ Memories[1].LastAccessedTime > Memories[1].CreationTime
    /\ ret.op = "RetrieveMemories"
    /\ ret.err = "nil"

\* the result has exactly one entry for each record of store ms
OneEntryPerRecord(result, ms) ==
    /\ Len(result) = Len(ms)
    /\ \A i \in 1..Len(ms) : \E j \in 1..Len(result) : result[j].idx = i

\* C14: a RetrieveMemories whose query embedding succeeded ends without an
\* error and with exactly one entry per record of the store (none on an
\* empty store), whether the agent or Reflect called it.
C14_NoTruncation ==
    [][ (pc = "scan" /\ pc' # "scan") =>
            IF rf.caller = "user"
            THEN /\ ret'.err = "nil"
                 /\ OneEntryPerRecord(ret'.val, Memories)
            ELSE /\ pc' = "insights"
                 /\ OneEntryPerRecord(fl'.retrievedMemories, Memories) ]_vars

\* C15: GetRecentMemories(n), n >= 0, returns the last min(n, s) records of
\* the store of s records in their store order, the whole store when n >= s,
\* and the step changes nothing of the store.
C15_RecentIsPureRead ==
    /\ [](ret.op = "GetRecentMemories" =>
            LET n == ret.calledAt
                s == Len(Memories)
                m == IF n < s THEN n ELSE s
            IN  /\ Len(ret.val) = m
                /\ \A k \in 1..m : ret.val[k] = Memories[s - m + k]
                /\ (n >= s => ret.val = Memories))
    /\ [][ret'.op = "GetRecentMemories" => Memories' = Memories]_vars

\* C15 witness: GetRecentMemories(1) has returned from a store of two
\* records that differ
C15_Witness ==
    /\ ret.op = "GetRecentMemories"
    /\ ret.calledAt = 1
    /\ Len(Memories) = 2
    /\ Memories[1] # Memories[2]

\* the line without its enumeration marker when it begins with one digit,
\* then '.' or ')', then whitespace, and the line as it is otherwise
MarkerStripped(line) ==
    IF /\ Len(line) >= 3
       /\ IsDigit(line[1])
       /\ line[2] \in {".", ")"}
       /\ IsSpace(line[3])
    THEN TrimSpace(SubSeq(line, 3, Len(line)))
    ELSE line

\* C16: for a text of one non-blank line, parseQuestions, and parseInsights
\* on a line without '(', return the trimmed line with its marker stripped
\* if and only if it begins with a digit, '.' or ')' and whitespace, and the
\* trimmed line intact otherwise.
C16_StripsOnlyMarkers ==
    LET text == ret.calledAt
        line == TrimSpace(text)
    IN  ( /\ ret.op \in {"parseQuestions", "parseInsights"}
          /\ Index(text, "\n") = 0
          /\ line # <<>>
          /\ (ret.op = "parseInsights" => Index(text, "(") = 0) )
        => ret.val = <<MarkerStripped(line)>>

\* a vector of zero magnitude
ZeroVector(a) == \A i \in 1..Len(a) : a[i] = 0

\* C17: cosineSimilarity of two vectors of one dimension is exactly 0 when
\* either has zero magnitude.
C17_ZeroVectorGivesZero ==
    ( /\ ret.op = "cosineSimilarity"
      /\ (ZeroVector(ret.calledAt[1]) \/ ZeroVector(ret.calledAt[2])) )
    => ret.val = 0

\* C17 witness: cosineSimilarity has returned for a zero vector and a
\* non-zero one of two components
C17_Witness ==
    /\ ret.op = "cosineSimilarity"
    /\ Len(ret.calledAt[1]) = 2
    /\ ZeroVector(ret.calledAt[1])
    /\ ~ZeroVector(ret.calledAt[2])

\* C18: the embedding of the query is the only external call of
\* RetrieveMemories, so a retrieval that is past it, scanning the store, does
\* not end in an error, whether the agent or Reflect called it.
C18_OnlyQueryEmbeddingFails ==
    [][ pc = "scan" =>
            /\ ~(ret'.op = "RetrieveMemories" /\ ret'.err # "nil")
            /\ ~(ret'.op = "Reflect" /\ ret'.err # "nil") ]_vars

\* no action of the plan starts after one that follows it
Chronological(acts) ==
    \A i, j \in 1..Len(acts) :
        i < j => ~(acts[i].StartTime > acts[j].StartTime)

\* C19: after any sequence of SetActions, AddAction and RemoveAction the
\* plan is in chronological order; AddAction makes it one action longer and
\* a RemoveAction that returns nil one action shorter.
C19_PlanChronological ==
    /\ [](Chronological(actions))
    /\ [][ /\ ret'.op = "AddAction" => Len(actions') = Len(actions) + 1
           /\ (ret'.op = "RemoveAction" /\ ret'.err = "nil")
                 => Len(actions') = Len(actions) - 1 ]_vars

\* C19 witness: AddAction has returned from a plan that now holds three
\* actions, the first earlier than the second and the second earlier than
\* the third
C19_Witness ==
    /\ ret.op = "AddAction"
    /\ Len(actions) = 3
    /\ actions[1].StartTime < actions[2].StartTime
    /\ actions[2].StartTime < actions[3].StartTime

\* the score of a record from its three terms: the relevance to the query,
\* the recency for `hours` hours since the last access, and the importance
ScoreOf(queryEmbedding, record, hours) ==
    FAdd(FAdd(Num(cosineSimilarity(queryEmbedding, record.Embedding)),
              Num(recencyScore(hours))),
         FScale(record.Importance, 10))

\* C20: every step of RetrieveMemories that scores a record scores it from
\* the LastAccessedTime the record has before the step, returns the record
\* as it was before the step, touches that record no earlier than the
\* instant it was scored for, and touches no other record: the call never
\* sees its own touch and the next call sees this one's.
C20_ScoredBeforeTouched ==
    [][ (pc = "scan" /\ Len(rf'.retrieved) = Len(rf.retrieved) + 1) =>
            LET i        == rf.i
                before   == Memories[i]
                scored   == rf'.retrieved[Len(rf'.retrieved)]
            IN  /\ scored.idx = i
                /\ scored.Memory = before
                /\ scored.Score
                      = ScoreOf(rf.queryEmbedding, before,
                                scored.since - before.LastAccessedTime)
                /\ Memories'[i].LastAccessedTime >= scored.since
                /\ \A j \in 1..Len(Memories) :
                      j # i => Memories'[j] = Memories[j] ]_vars

\* C20 witness: a retrieval has returned a record that it scored an hour
\* after the record's last access and has touched since
C20_Witness ==
    /\ ret.op = "RetrieveMemories"
    /\ ret.err = "nil"
    /\ \E j \in 1..Len(ret.val) :
          /\ ret.val[j].since > ret.val[j].Memory.LastAccessedTime
          /\ Memories[ret.val[j].idx].LastAccessedTime >= ret.val[j].since

\* C21: no item returned by parseQuestions or parseInsights is the empty
\* text.
C21_NoEmptyItem ==
    ret.op \in {"parseQuestions", "parseInsights"}
    => \A k \in 1..Len(ret.val) : ret.val[k] # <<>>

\* C22: a RetrieveMemories that returns an error leaves the store as it was
\* at the call.  When the embedding of the query fails the step changes no
\* record; when the scan fails, every record scanned before is as the copy
\* taken of it before its touch, and the step changes no record.
C22_FailedRetrieveTouchesNothing ==
    [][ /\ (pc = "idle" /\ ret'.op = "RetrieveMemories" /\ ret'.err # "nil")
              => Memories' = Memories
        /\ (pc = "scan" /\ pc' = "idle" /\ ret'.err # "nil")
              => /\ Memories' = Memories
                 /\ \A j \in 1..Len(rf.retrieved) :
                       Memories'[rf.retrieved[j].idx]
                           = rf.retrieved[j].Memory ]_vars

\* a reflection pass is running
InPass == pc \in {"loop", "insights", "add"}
             \/ (pc = "scan" /\ rf.caller = "reflect")

\* C23: a running reflection pass ends with the return of Reflect.  Along
\* the pass the list of questions is fixed and the questions are taken one
\* by one, each once; the retrieval for a question scans the store record
\* by record while no record is added; the insights completion is made once
\* per question, after its retrieval; and the insights of a question are
\* fixed while they are appended one by one.
C23_ReflectTerminates ==
    /\ InPass ~> (pc = "idle" /\ ret.op = "Reflect")
    /\ [][ (InPass /\ InPass') =>
             /\ fl'.questions = fl.questions
             /\ fl'.qi = (IF pc' = "loop" THEN fl.qi + 1 ELSE fl.qi)
             /\ fl'.qi <= Len(fl.questions)
             /\ (pc' = "scan") => (pc \in {"loop", "scan"})
             /\ (pc = "scan" /\ pc' = "scan") =>
                    /\ rf'.i = rf.i + 1
                    /\ rf'.i <= Len(Memories) + 1
                    /\ Len(Memories') = Len(Memories)
             /\ (pc' = "insights") => (pc = "scan")
             /\ (pc = "insights") => (pc' # "insights")
             /\ (pc = "add" /\ pc' = "add") =>
                    /\ fl'.insights = fl.insights
                    /\ fl'.retrievedMemories = fl.retrievedMemories
                    /\ fl'.ii = fl.ii + 1
                    /\ fl'.ii <= Len(fl.insights) ]_vars

\* C23 witness: a pass over two questions has appended an insight for the
\* first question, retrieved for the second and returned
C23_Witness ==
    /\ pc = "idle"
    /\ ret.op = "Reflect"
    /\ hist.nq = 2
    /\ hist.q = 2
    /\ hist.stage \in {"insights", "done"}
    /\ Len(Memories) > Len(hist.start)

====
